---- MODULE Spec2Model ----
(***************************************************************************)
(* Model of the discount service (src/discount_service.py): the pricing    *)
(* pipeline calculate_cart_discounts with its four rule families, the      *)
(* response builder, and validate_discount_code.                           *)
(*                                                                         *)
(* Decimal amounts are exact fixed-point numbers [w, f] standing for       *)
(* w + f / ONE with 0 <= f < ONE.  Prices carry at most three decimal      *)
(* places and every pipeline stage adds two (x * pct / 100), so nine       *)
(* fractional digits keep all amounts exact, as Python's Decimal           *)
(* (28 significant digits) does for these magnitudes.                      *)
(***************************************************************************)
EXTENDS Integers, Sequences, FiniteSets, TLC

VARIABLES
    tables,             \* the four module-level rule tables
    cart_items,         \* argument: sequence of cart items
    customer,           \* argument: customer profile (tier)
    payment_info,       \* argument: <<>> (None) or <<PaymentInfo>>
    voucher_code,       \* argument: <<>> (None) or <<code>>
    pc,                 \* position inside calculate_cart_discounts
    original_price,     \* local original_price
    applied_discounts,  \* local applied_discounts (display name -> amount)
    result,             \* <<>> until a DiscountedPrice is returned
    error,              \* message of the ValueError raised, "" if none
    is_valid            \* <<>> until validate_discount_code has returned

vars == <<tables, cart_items, customer, payment_info, voucher_code, pc,
          original_price, applied_discounts, result, error, is_valid>>

-----------------------------------------------------------------------------
(* Decimal arithmetic *)

ONE == 1000000000

Dec(whole, milli) == [w |-> whole, f |-> milli * 1000000]

D(n) == Dec(n, 0)

Zero == D(0)

DNorm(whole, frac) == [w |-> whole + (frac \div ONE), f |-> frac % ONE]

DAdd(a, b) == DNorm(a.w + b.w, a.f + b.f)

DSub(a, b) == DNorm(a.w - b.w, a.f - b.f)

DLt(a, b) == a.w < b.w \/ (a.w = b.w /\ a.f < b.f)

DLe(a, b) == ~DLt(b, a)

\* a * n for an integer 0 <= n <= 100, the fraction multiplied in two halves
DScale(a, n) ==
    LET hi == (a.f \div 100000) * n
        lo == (a.f % 100000) * n
    IN  DNorm(a.w * n + (hi \div 10000), (hi % 10000) * 100000 + lo)

\* a / 100
DDiv100(a) ==
    LET q == a.w \div 100
        r == a.w % 100
    IN  [w |-> q, f |-> r * 10000000 + (a.f \div 100)]

\* amount * percentage / 100
Percent(a, pct) == DDiv100(DScale(a, pct))

\* Decimal.quantize(Decimal('0.01')) under the default context rounding,
\* ROUND_HALF_EVEN, for a >= 0
Quantize(a) ==
    LET cents == a.f \div 10000000
        rest  == a.f % 10000000
        up    == IF rest > 5000000 \/ (rest = 5000000 /\ cents % 2 = 1)
                 THEN 1 ELSE 0
    IN  DNorm(a.w, (cents + up) * 10000000)

-----------------------------------------------------------------------------
(* Dictionaries: functions from display names to amounts *)

EmptyDict == [k \in {} |-> Zero]

\* dict.update: keys of u overwrite keys of d
Update(d, u) ==
    [k \in DOMAIN d \cup DOMAIN u |-> IF k \in DOMAIN u THEN u[k] ELSE d[k]]

\* d.get(k, Decimal('0'))
Get(d, k) == IF k \in DOMAIN d THEN d[k] ELSE Zero

RECURSIVE SumValues(_)
\* sum(d.values())
SumValues(d) ==
    IF DOMAIN d = {} THEN Zero
    ELSE LET k == CHOOSE x \in DOMAIN d : TRUE
         IN  DAdd(d[k], SumValues([x \in DOMAIN d \ {k} |-> d[x]]))

-----------------------------------------------------------------------------
(* Rule tables *)

BRAND_DISCOUNTS ==
    ("PUMA" :> [discount |-> 40, name |-> "Min 40% off on PUMA"]) @@
    ("Nike" :> [discount |-> 30, name |-> "30% off on Nike",
                min_purchase |-> D(2000)])

CATEGORY_DISCOUNTS ==
    ("T-shirts" :> [discount |-> 10, name |-> "Extra 10% off on T-shirts"]) @@
    ("Jeans" :> [discount |-> 15, name |-> "15% off on Jeans",
                 excluded_brands |-> {"Levis"}])

BANK_OFFERS ==
    ("ICICI" :> [discount |-> 10, name |-> "ICICI - 10% instant discount",
                 min_purchase |-> D(1000)]) @@
    ("HDFC" :> [discount |-> 15, name |-> "HDFC - 15% instant discount",
                min_purchase |-> D(2000)])

VOUCHER_CODES ==
    ("SUPER69" :> [discount |-> 69, name |-> "Super Sale Voucher",
                   max_discount |-> D(5000)]) @@
    ("VIP20" :> [discount |-> 20, name |-> "Premium Member Voucher",
                 required_tier |-> "PREMIUM"])

\* the tables as the module defines them
ShippedTables ==
    [brand |-> BRAND_DISCOUNTS, category |-> CATEGORY_DISCOUNTS,
     bank |-> BANK_OFFERS, voucher |-> VOUCHER_CODES]

-----------------------------------------------------------------------------
(* The rule families *)

\* item.product.base_price * item.quantity
BaseTotal(item) == DScale(item.product.base_price, item.quantity)

RECURSIVE BrandTotal(_, _, _)
\* brand-wide sum of base_price * quantity over items i..Len(cart) of brand
BrandTotal(cart, brand, i) ==
    IF i > Len(cart) THEN Zero
    ELSE IF cart[i].product.brand = brand
         THEN DAdd(BaseTotal(cart[i]), BrandTotal(cart, brand, i + 1))
         ELSE BrandTotal(cart, brand, i + 1)

\* what one loop iteration of _apply_brand_discounts does to brand_discounts
BrandStep(cart, item, acc) ==
    IF item.product.brand \notin DOMAIN tables.brand THEN acc
    ELSE LET brand_rule == tables.brand[item.product.brand]
         IN  IF "min_purchase" \in DOMAIN brand_rule
                /\ DLt(BrandTotal(cart, item.product.brand, 1),
                       brand_rule.min_purchase)
             THEN acc
             ELSE LET discount_amount ==
                          Percent(BaseTotal(item), brand_rule.discount)
                      discount_name == brand_rule.name
                  IN  Update(acc, discount_name :>
                                  DAdd(Get(acc, discount_name), discount_amount))

RECURSIVE BrandLoop(_, _, _)
BrandLoop(cart, i, acc) ==
    IF i > Len(cart) THEN acc
    ELSE BrandLoop(cart, i + 1, BrandStep(cart, cart[i], acc))

apply_brand_discounts(cart) == BrandLoop(cart, 1, EmptyDict)

\* faulty variant of CategoryStep: the brand exclusion is not tested
CategoryStepNoExclusion(item, acc) ==
    IF item.product.category \notin DOMAIN tables.category THEN acc
    ELSE LET category_rule == tables.category[item.product.category]
             discount_amount ==
                 Percent(DScale(item.product.current_price, item.quantity),
                         category_rule.discount)
             discount_name == category_rule.name
         IN  Update(acc, discount_name :>
                         DAdd(Get(acc, discount_name), discount_amount))

\* what one loop iteration of _apply_category_discounts does to
\* category_discounts
CategoryStep(item, acc) ==
    IF item.product.category \notin DOMAIN tables.category THEN acc
    ELSE LET category_rule == tables.category[item.product.category]
         IN  IF "excluded_brands" \in DOMAIN category_rule
                /\ item.product.brand \in category_rule.excluded_brands
             THEN acc
             ELSE LET discount_amount ==
                          Percent(DScale(item.product.current_price,
                                         item.quantity),
                                  category_rule.discount)
                      discount_name == category_rule.name
                  IN  Update(acc, discount_name :>
                                  DAdd(Get(acc, discount_name), discount_amount))

RECURSIVE CategoryLoop(_, _, _)
CategoryLoop(cart, i, acc) ==
    IF i > Len(cart) THEN acc
    ELSE CategoryLoop(cart, i + 1, CategoryStep(cart[i], acc))

apply_category_discounts(cart) == CategoryLoop(cart, 1, EmptyDict)

\* f"Voucher {voucher_code}"
VoucherKey(code) == "Voucher " \o code

\* faulty variant of apply_voucher_discount: max_discount is not applied
apply_voucher_discount_uncapped(code, cust, original, existing_discounts) ==
    IF code \notin DOMAIN tables.voucher THEN EmptyDict
    ELSE LET voucher_rule == tables.voucher[code]
         IN  IF "required_tier" \in DOMAIN voucher_rule
                /\ cust.tier # voucher_rule.required_tier
             THEN EmptyDict
             ELSE VoucherKey(code) :>
                      Percent(DSub(original, SumValues(existing_discounts)),
                              voucher_rule.discount)

apply_voucher_discount(code, cust, original, existing_discounts) ==
    IF code \notin DOMAIN tables.voucher THEN EmptyDict
    ELSE LET voucher_rule == tables.voucher[code]
         IN  IF "required_tier" \in DOMAIN voucher_rule
                /\ cust.tier # voucher_rule.required_tier
             THEN EmptyDict
             ELSE LET total_after_discounts ==
                          DSub(original, SumValues(existing_discounts))
                      voucher_discount ==
                          Percent(total_after_discounts, voucher_rule.discount)
                  IN  VoucherKey(code) :>
                          (IF "max_discount" \in DOMAIN voucher_rule
                              /\ DLt(voucher_rule.max_discount, voucher_discount)
                           THEN voucher_rule.max_discount
                           ELSE voucher_discount)

\* faulty variant of apply_bank_offer: the minimum purchase is tested against
\* the discounted subtotal
apply_bank_offer_min_on_subtotal(pay, original, existing_discounts) ==
    IF ~(pay.method = "CARD" /\ pay.bank_name \in DOMAIN tables.bank)
    THEN EmptyDict
    ELSE LET bank_rule == tables.bank[pay.bank_name]
             total_after_discounts ==
                 DSub(original, SumValues(existing_discounts))
         IN  IF "min_purchase" \in DOMAIN bank_rule
                /\ DLt(total_after_discounts, bank_rule.min_purchase)
             THEN EmptyDict
             ELSE bank_rule.name :>
                      Percent(total_after_discounts, bank_rule.discount)

\* faulty variant of apply_bank_offer: the percentage is taken of
\* original_price, not of what the earlier stages left
apply_bank_offer_on_original(pay, original, existing_discounts) ==
    IF ~(pay.method = "CARD" /\ pay.bank_name \in DOMAIN tables.bank)
    THEN EmptyDict
    ELSE LET bank_rule == tables.bank[pay.bank_name]
         IN  IF "min_purchase" \in DOMAIN bank_rule
                /\ DLt(original, bank_rule.min_purchase)
             THEN EmptyDict
             ELSE bank_rule.name :> Percent(original, bank_rule.discount)

apply_bank_offer(pay, original, existing_discounts) ==
    IF ~(pay.method = "CARD" /\ pay.bank_name \in DOMAIN tables.bank)
    THEN EmptyDict
    ELSE LET bank_rule == tables.bank[pay.bank_name]
         IN  IF "min_purchase" \in DOMAIN bank_rule
                /\ DLt(original, bank_rule.min_purchase)
             THEN EmptyDict
             ELSE LET total_after_discounts ==
                          DSub(original, SumValues(existing_discounts))
                  IN  bank_rule.name :>
                          Percent(total_after_discounts, bank_rule.discount)

\* the DiscountedPrice built from the price and the merged discounts; of the
\* message only the branch taken is kept
build_discounted_price_response(original, discounts) ==
    LET total_discount == SumValues(discounts)
        difference == DSub(original, total_discount)
        final_price == IF DLt(difference, Zero) THEN Zero ELSE difference
    IN  [original_price |-> original,
         final_price |-> Quantize(final_price),
         applied_discounts |-> discounts,
         message |-> IF DOMAIN discounts # {} THEN "You saved"
                     ELSE "No discounts applied"]

\* the response to an empty cart
EmptyCartResponse ==
    [original_price |-> Zero, final_price |-> Zero,
     applied_discounts |-> EmptyDict, message |-> "Empty cart"]

RECURSIVE ValidationErrorNoCurrent(_, _)
\* faulty variant of ValidationError: current_price is not tested
ValidationErrorNoCurrent(cart, i) ==
    IF i > Len(cart) THEN ""
    ELSE IF cart[i].quantity < 0
         THEN "Cart item quantity cannot be negative."
    ELSE IF DLt(cart[i].product.base_price, Zero)
         THEN "Product price cannot be negative."
    ELSE ValidationErrorNoCurrent(cart, i + 1)

RECURSIVE ValidationError(_, _)
\* the message of the first ValueError the validation loop raises from item i
\* on, "" when it raises none
ValidationError(cart, i) ==
    IF i > Len(cart) THEN ""
    ELSE IF cart[i].quantity < 0
         THEN "Cart item quantity cannot be negative."
    ELSE IF DLt(cart[i].product.base_price, Zero)
            \/ DLt(cart[i].product.current_price, Zero)
         THEN "Product price cannot be negative."
    ELSE ValidationError(cart, i + 1)

RECURSIVE SumCurrent(_, _)
\* faulty variant of SumBase: current_price in place of base_price
SumCurrent(cart, i) ==
    IF i > Len(cart) THEN Zero
    ELSE DAdd(DScale(cart[i].product.current_price, cart[i].quantity),
              SumCurrent(cart, i + 1))

RECURSIVE SumBase(_, _)
\* sum(item.product.base_price * item.quantity for item in cart_items)
SumBase(cart, i) ==
    IF i > Len(cart) THEN Zero
    ELSE DAdd(BaseTotal(cart[i]), SumBase(cart, i + 1))

\* stages 1-3 of calculate_cart_discounts as updates of applied_discounts
AfterBrand(cart) == Update(EmptyDict, apply_brand_discounts(cart))

AfterCategory(cart) == Update(AfterBrand(cart), apply_category_discounts(cart))

\* faulty variant of AfterVoucher: the voucher's mapping is assigned to
\* applied_discounts, not merged into it
AfterVoucherAssigned(cart, cust, code, original, discounts) ==
    IF code # <<>> /\ code[1] # ""
    THEN apply_voucher_discount(code[1], cust, original, discounts)
    ELSE discounts

AfterVoucher(cart, cust, code, original, discounts) ==
    IF code # <<>> /\ code[1] # ""
    THEN Update(discounts,
                apply_voucher_discount(code[1], cust, original, discounts))
    ELSE discounts

AfterBank(pay, original, discounts) ==
    IF pay # <<>>
    THEN Update(discounts, apply_bank_offer(pay[1], original, discounts))
    ELSE discounts

\* the whole of calculate_cart_discounts: the error raised ("" if none) and
\* the DiscountedPrice returned (<<>> if it raised)
calculate_cart_discounts(cart, cust, pay, code) ==
    IF cart = <<>> THEN [raised |-> "", returned |-> <<EmptyCartResponse>>]
    ELSE IF ValidationError(cart, 1) # ""
    THEN [raised |-> ValidationError(cart, 1), returned |-> <<>>]
    ELSE LET original == SumBase(cart, 1)
             d2 == AfterCategory(cart)
             d3 == AfterVoucher(cart, cust, code, original, d2)
             d4 == AfterBank(pay, original, d3)
         IN  [raised |-> "",
              returned |-> <<build_discounted_price_response(original, d4)>>]

\* faulty variant of validate_discount_code: the tier is not tested
validate_discount_code_any_tier(code, cart, cust) ==
    code \in DOMAIN tables.voucher

validate_discount_code(code, cart, cust) ==
    IF code \notin DOMAIN tables.voucher THEN FALSE
    ELSE LET voucher_rule == tables.voucher[code]
         IN  IF "required_tier" \in DOMAIN voucher_rule
                /\ cust.tier # voucher_rule.required_tier
             THEN FALSE
             ELSE TRUE

-----------------------------------------------------------------------------
(* Inputs *)

MaxCartLen == 2

Product(brand, category, base_price, current_price) ==
    [brand |-> brand, category |-> category,
     base_price |-> base_price, current_price |-> current_price]

CartItem(product, quantity) == [product |-> product, quantity |-> quantity]

\* the products of fake_data.py and of the unit tests
puma_tshirt == Product("PUMA", "T-shirts", D(1000), D(600))

nike_shoes == Product("Nike", "Shoes", D(5000), D(5000))

adidas_jeans == Product("Adidas", "Jeans", D(2000), D(2000))

levis_jeans == Product("Levis", "Jeans", D(3000), D(3000))

cheap_nike == Product("Nike", "Socks", D(1000), D(1000))

\* further products: a current price above the base price, a price with
\* three decimal places, a price high enough for the voucher cap, and the
\* negative prices the validation loop rejects
marked_up_tshirt == Product("Adidas", "T-shirts", D(1000), D(20000))

fraction_tshirt == Product("Adidas", "T-shirts", Dec(0, 6), Dec(0, 6))

costly_shoes == Product("Adidas", "Shoes", D(20000), D(20000))

negative_base == Product("Adidas", "Shoes", D(-1), D(10))

negative_current == Product("Adidas", "Shoes", D(10), D(-1))

Items ==
    { CartItem(puma_tshirt, 2), CartItem(nike_shoes, 1),
      CartItem(adidas_jeans, 1), CartItem(levis_jeans, 1),
      CartItem(cheap_nike, 1), CartItem(marked_up_tshirt, 1),
      CartItem(fraction_tshirt, 1), CartItem(costly_shoes, 1),
      CartItem(adidas_jeans, 0), CartItem(puma_tshirt, -1),
      CartItem(negative_base, 1), CartItem(negative_current, 1) }

Carts == UNION { [1..n -> Items] : n \in 0..MaxCartLen }

Customers == { [tier |-> "PREMIUM"], [tier |-> "SILVER"] }

PaymentInfo(method, bank_name) == [method |-> method, bank_name |-> bank_name]

\* None, icici_card, hdfc_card and upi_payment (bank_name None)
Payments ==
    { <<>>, <<PaymentInfo("CARD", "ICICI")>>, <<PaymentInfo("CARD", "HDFC")>>,
      <<PaymentInfo("UPI", "None")>> }

\* None, the empty string, the two known codes and an unknown one
VoucherArgs == { <<>>, <<"">>, <<"SUPER69">>, <<"VIP20">>, <<"BOGUS">> }

-----------------------------------------------------------------------------
(* The state machine *)

InitCall ==
    /\ cart_items \in Carts
    /\ customer \in Customers
    /\ payment_info \in Payments
    /\ voucher_code \in VoucherArgs
    /\ pc = "start"
    /\ original_price = Zero
    /\ applied_discounts = EmptyDict
    /\ result = <<>>
    /\ error = ""
    /\ is_valid = <<>>

Init == tables = ShippedTables /\ InitCall

\* the tables with one display name used by a brand rule and a category rule
CollidingTables ==
    [ShippedTables EXCEPT !.category["T-shirts"].name = "Min 40% off on PUMA"]

InitTables == tables \in {ShippedTables, CollidingTables} /\ InitCall

args == <<tables, cart_items, customer, payment_info, voucher_code>>

\* lines 46-52: if not cart_items: return the empty-cart response
EmptyCart ==
    /\ pc = "start"
    /\ cart_items = <<>>
    /\ result' = <<EmptyCartResponse>>
    /\ pc' = "done"
    /\ UNCHANGED <<args, original_price, applied_discounts, error, is_valid>>

\* lines 55-59: the validation loop raises at the first offending item
RaiseInvalid ==
    /\ pc = "start"
    /\ cart_items # <<>>
    /\ ValidationError(cart_items, 1) # ""
    /\ error' = ValidationError(cart_items, 1)
    /\ pc' = "raised"
    /\ UNCHANGED <<args, original_price, applied_discounts, result, is_valid>>

\* lines 55-62: the validation loop passes; original_price, applied_discounts
ComputeOriginalPrice ==
    /\ pc = "start"
    /\ cart_items # <<>>
    /\ ValidationError(cart_items, 1) = ""
    /\ original_price' = SumBase(cart_items, 1)
    /\ applied_discounts' = EmptyDict
    /\ pc' = "brand"
    /\ UNCHANGED <<args, result, error, is_valid>>

\* line 65
BrandStage ==
    /\ pc = "brand"
    /\ applied_discounts' =
           Update(applied_discounts, apply_brand_discounts(cart_items))
    /\ pc' = "category"
    /\ UNCHANGED <<args, original_price, result, error, is_valid>>

\* line 66
CategoryStage ==
    /\ pc = "category"
    /\ applied_discounts' =
           Update(applied_discounts, apply_category_discounts(cart_items))
    /\ pc' = "voucher"
    /\ UNCHANGED <<args, original_price, result, error, is_valid>>

\* lines 69-72
VoucherStage ==
    /\ pc = "voucher"
    /\ applied_discounts' =
           AfterVoucher(cart_items, customer, voucher_code, original_price,
                        applied_discounts)
    /\ pc' = "bank"
    /\ UNCHANGED <<args, original_price, result, error, is_valid>>

\* lines 75-78
BankStage ==
    /\ pc = "bank"
    /\ applied_discounts' =
           AfterBank(payment_info, original_price, applied_discounts)
    /\ pc' = "build"
    /\ UNCHANGED <<args, original_price, result, error, is_valid>>

\* line 81
BuildResponse ==
    /\ pc = "build"
    /\ result' =
           <<build_discounted_price_response(original_price, applied_discounts)>>
    /\ pc' = "done"
    /\ UNCHANGED <<args, original_price, applied_discounts, error, is_valid>>

\* lines 202-222, called with the code of the pricing request once the
\* request has ended (the service keeps no state between calls)
ValidateDiscountCode ==
    /\ pc \in {"done", "raised"}
    /\ voucher_code # <<>>
    /\ is_valid = <<>>
    /\ is_valid' = <<validate_discount_code(voucher_code[1], cart_items, customer)>>
    /\ UNCHANGED <<args, pc, original_price, applied_discounts, result, error>>

Next ==
    \/ EmptyCart
    \/ RaiseInvalid
    \/ ComputeOriginalPrice
    \/ BrandStage
    \/ CategoryStage
    \/ VoucherStage
    \/ BankStage
    \/ BuildResponse
    \/ ValidateDiscountCode

Spec == Init /\ [][Next]_vars

\* the same service over rule tables with other contents
SpecTables == InitTables /\ [][Next]_vars

-----------------------------------------------------------------------------
(* Properties *)

\* a DiscountedPrice was returned for a non-empty cart
Priced == pc = "done" /\ cart_items # <<>> /\ result # <<>>

\* the display names of the bank table
BankNames == { BANK_OFFERS[b].name : b \in DOMAIN BANK_OFFERS }

\* d without the keys in ks
Without(d, ks) == [k \in DOMAIN d \ ks |-> d[k]]

\* C1: whenever calculate_cart_discounts returns, the final_price it returns
\* (after the 2-decimal quantization) is at least 0 and at most the
\* original_price it returns.
C1_FinalPriceWithinOriginal ==
    (pc = "done" /\ result # <<>>) =>
        /\ DLe(Zero, result[1].final_price)
        /\ DLe(result[1].final_price, result[1].original_price)

RECURSIVE BasePriceOfFirst(_, _)
\* the sum of base_price x quantity over the first n items of the cart
BasePriceOfFirst(cart, n) ==
    IF n = 0 THEN Zero
    ELSE DAdd(BasePriceOfFirst(cart, n - 1),
              DNorm(cart[n].product.base_price.w * cart[n].quantity,
                    cart[n].product.base_price.f * cart[n].quantity))

\* C2: for an accepted non-empty cart, original_price is the sum over all
\* items of base_price x quantity from the moment it is computed to the
\* returned result, whatever the customer, payment info, voucher code and
\* discounts applied.
C2_OriginalPriceIsBaseSum ==
    /\ pc \in {"brand", "category", "voucher", "bank", "build"} =>
           original_price = BasePriceOfFirst(cart_items, Len(cart_items))
    /\ Priced =>
           result[1].original_price =
               BasePriceOfFirst(cart_items, Len(cart_items))

\* C2 witness: a priced cart with an item whose current price differs from
\* its base price, a voucher and a bank offer applied
C2_Witness ==
    /\ Priced
    /\ \E i \in 1..Len(cart_items) :
           /\ cart_items[i].product.current_price
                  # cart_items[i].product.base_price
           /\ cart_items[i].quantity > 0
    /\ voucher_code # <<>>
    /\ VoucherKey(voucher_code[1]) \in DOMAIN result[1].applied_discounts
    /\ DOMAIN result[1].applied_discounts \cap BankNames # {}
    /\ DLt(result[1].final_price, result[1].original_price)

\* some item of the cart has a negative quantity or a negative price
Offending(item) ==
    \/ item.quantity < 0
    \/ item.product.base_price.w < 0
    \/ item.product.current_price.w < 0

\* C3: a non-empty cart with an offending item anywhere in it ends with the
\* ValueError and nothing else: no price, no discount mapping, no result.
C3_InvalidInputRejected ==
    (cart_items # <<>> /\ \E i \in 1..Len(cart_items) : Offending(cart_items[i]))
    =>  /\ pc \in {"start", "raised"}
        /\ pc = "start" => ENABLED RaiseInvalid /\ error = ""
        /\ pc = "raised" => error # ""
        /\ result = <<>>
        /\ applied_discounts = EmptyDict
        /\ original_price = Zero

\* C3 witness: the request was rejected for a negative current price of the
\* last item, after a valid item that the rule tables would discount, with
\* a voucher code and a card payment supplied
C3_Witness ==
    /\ pc = "raised"
    /\ Len(cart_items) = 2
    /\ ~Offending(cart_items[1])
    /\ cart_items[1].product.brand \in DOMAIN BRAND_DISCOUNTS
    /\ cart_items[2].product.current_price.w < 0
    /\ cart_items[2].quantity >= 0
    /\ cart_items[2].product.base_price.w >= 0
    /\ voucher_code = <<"SUPER69">>
    /\ payment_info # <<>>

\* the result of the same request without a voucher code
WithoutVoucher ==
    calculate_cart_discounts(cart_items, customer, payment_info, <<>>).returned[1]

\* C4: the final_price returned with the voucher code is at most the
\* final_price the same request returns without a voucher code, and the
\* original_price is the same.
C4_VoucherNeverIncreasesFinalPrice ==
    (Priced /\ voucher_code # <<>>) =>
        /\ DLe(result[1].final_price, WithoutVoucher.final_price)
        /\ result[1].original_price = WithoutVoucher.original_price

\* C4 witness: a voucher was applied, a bank offer after it, and the final
\* price is lower than without the voucher
C4_Witness ==
    /\ Priced
    /\ voucher_code # <<>>
    /\ VoucherKey(voucher_code[1]) \in DOMAIN result[1].applied_discounts
    /\ DOMAIN result[1].applied_discounts \cap BankNames # {}
    /\ DLt(result[1].final_price, WithoutVoucher.final_price)

\* the voucher amount before the cap: (original_price - discounts applied
\* before the voucher stage) x percentage / 100
RawVoucher(code) ==
    LET earlier == Without(applied_discounts, {VoucherKey(code)} \cup BankNames)
    IN  DDiv100(DScale(DSub(original_price, SumValues(earlier)),
                       VOUCHER_CODES[code].discount))

CardWithMinimum ==
    /\ payment_info # <<>>
    /\ payment_info[1].method = "CARD"
    /\ payment_info[1].bank_name \in DOMAIN BANK_OFFERS
    /\ "min_purchase" \in DOMAIN BANK_OFFERS[payment_info[1].bank_name]

\* the bank rule of the request's payment info
BankRule == BANK_OFFERS[payment_info[1].bank_name]

\* C6: once the bank stage has run for a card payment with a known bank
\* that has a minimum purchase, the bank's display name is in
\* applied_discounts exactly when original_price is not below the minimum:
\* absent whenever it is below, and decided by original_price alone.
C6_BankMinimumOnOriginalPrice ==
    (pc \in {"build", "done"} /\ cart_items # <<>> /\ CardWithMinimum) =>
        (BankRule.name \in DOMAIN applied_discounts
             <=> DLe(BankRule.min_purchase, original_price))

\* C6 witness: a priced cart with a positive original_price below the
\* bank's minimum, other discounts applied and no bank entry
C6_Witness ==
    /\ Priced
    /\ CardWithMinimum
    /\ DLt(Zero, original_price)
    /\ DLt(original_price, BankRule.min_purchase)
    /\ BankRule.name \notin DOMAIN result[1].applied_discounts
    /\ DOMAIN result[1].applied_discounts # {}

\* the code is in the voucher table and its rule has no required tier or
\* the customer's tier
Eligible(code, tier) ==
    /\ code \in DOMAIN VOUCHER_CODES
    /\ \/ "required_tier" \notin DOMAIN VOUCHER_CODES[code]
       \/ tier = VOUCHER_CODES[code].required_tier

RECURSIVE FamilySum(_, _, _)
\* the sum of the amounts under key k that the mappings of fs hold
FamilySum(fs, k, n) ==
    IF n = 0 THEN Zero
    ELSE DAdd(FamilySum(fs, k, n - 1), Get(fs[n], k))

\* C8: when the brand and category mappings have been merged, every key of
\* applied_discounts holds the sum of the amounts the two families produced
\* under it.
C8_CollidingNamesSummed ==
    pc = "voucher" =>
        LET families == <<apply_brand_discounts(cart_items),
                          apply_category_discounts(cart_items)>>
        IN  /\ DOMAIN applied_discounts
                   = DOMAIN families[1] \cup DOMAIN families[2]
            /\ \A k \in DOMAIN applied_discounts :
                   applied_discounts[k] = FamilySum(families, k, 2)

RECURSIVE CategoryAmount(_, _, _)
\* the sum of current_price x quantity x percentage / 100 over the first n
\* items of the cart that are of the category and not of an excluded brand
CategoryAmount(cart, category, n) ==
    IF n = 0 THEN Zero
    ELSE LET rule == CATEGORY_DISCOUNTS[category]
             p == cart[n].product
             excluded == IF "excluded_brands" \in DOMAIN rule
                         THEN rule.excluded_brands ELSE {}
         IN  IF p.category = category /\ p.brand \notin excluded
             THEN DAdd(CategoryAmount(cart, category, n - 1),
                       DDiv100(DScale(DScale(p.current_price, cart[n].quantity),
                                      rule.discount)))
             ELSE CategoryAmount(cart, category, n - 1)

\* the cart has an item of the category that is not of an excluded brand
HasIncluded(cart, category) ==
    \E i \in 1..Len(cart) :
        /\ cart[i].product.category = category
        /\ \/ "excluded_brands" \notin DOMAIN CATEGORY_DISCOUNTS[category]
           \/ cart[i].product.brand
                  \notin CATEGORY_DISCOUNTS[category].excluded_brands

\* C9: what _apply_category_discounts returns for the cart of an accepted
\* request, and what the pipeline holds under a category rule's display
\* name once the category stage has run: the sum over the non-excluded
\* items of the category only, and no entry when the category has none.
C9_ExcludedBrandsContributeNothing ==
    pc \in {"category", "voucher", "bank", "build", "done"} /\ cart_items # <<>>
    =>  \A c \in DOMAIN CATEGORY_DISCOUNTS :
            LET name == CATEGORY_DISCOUNTS[c].name
                returned == apply_category_discounts(cart_items)
                expected == CategoryAmount(cart_items, c, Len(cart_items))
            IN  /\ name \in DOMAIN returned <=> HasIncluded(cart_items, c)
                /\ name \in DOMAIN returned => returned[name] = expected
                /\ pc # "category" =>
                       /\ name \in DOMAIN applied_discounts
                              <=> HasIncluded(cart_items, c)
                       /\ name \in DOMAIN applied_discounts
                              => applied_discounts[name] = expected

\* C9 witness: the category stage has run on a cart holding an excluded and
\* a non-excluded item of one category, and only the latter was discounted
C9_Witness ==
    /\ pc = "voucher"
    /\ Len(cart_items) = 2
    /\ cart_items[1].product = levis_jeans
    /\ cart_items[2].product = adidas_jeans
    /\ cart_items[2].quantity = 1
    /\ applied_discounts["15% off on Jeans"] = D(300)

\* C10: the stages run in the order brand+category, voucher, bank: no
\* voucher entry exists before the voucher stage and no bank entry before
\* the bank stage; and an eligible bank offer records, under the rule's
\* display name, (original_price - all brand, category and voucher amounts
\* applied) x percentage / 100, uncapped.
C10_BankOnPostVoucherSubtotal ==
    /\ pc \in {"brand", "category", "voucher"} =>
           DOMAIN applied_discounts \cap
               ({VoucherKey(c) : c \in DOMAIN VOUCHER_CODES} \cup BankNames) = {}
    /\ pc = "bank" => DOMAIN applied_discounts \cap BankNames = {}
    /\ (/\ pc \in {"build", "done"}
        /\ cart_items # <<>>
        /\ payment_info # <<>>
        /\ payment_info[1].method = "CARD"
        /\ payment_info[1].bank_name \in DOMAIN BANK_OFFERS
        /\ DLe(BankRule.min_purchase, original_price))
       =>  LET earlier == Without(applied_discounts, {BankRule.name})
           IN  /\ BankRule.name \in DOMAIN applied_discounts
               /\ applied_discounts[BankRule.name] =
                      DDiv100(DScale(DSub(original_price, SumValues(earlier)),
                                     BankRule.discount))

\* C10 witness: brand, voucher and bank discounts were all applied, and the
\* bank amount is below the percentage of the pre-voucher subtotal
C10_Witness ==
    /\ Priced
    /\ voucher_code # <<>>
    /\ VoucherKey(voucher_code[1]) \in DOMAIN applied_discounts
    /\ DLt(Zero, applied_discounts[VoucherKey(voucher_code[1])])
    /\ CardWithMinimum
    /\ BankRule.name \in DOMAIN applied_discounts
    /\ DOMAIN applied_discounts \cap
           { BRAND_DISCOUNTS[b].name : b \in DOMAIN BRAND_DISCOUNTS } # {}
    /\ DLt(applied_discounts[BankRule.name],
           DDiv100(DScale(DSub(original_price,
                               SumValues(Without(applied_discounts,
                                   {BankRule.name,
                                    VoucherKey(voucher_code[1])}))),
                          BankRule.discount)))

\* C11: every amount in the applied_discounts of a returned result is at
\* least 0: no stage records a negative discount.
C11_NoNegativeAmount ==
    (pc = "done" /\ result # <<>>) =>
        \A k \in DOMAIN result[1].applied_discounts :
            DLe(Zero, result[1].applied_discounts[k])

====
